---- MODULE Spec2Model ----
(***************************************************************************)
(* A model of the checkers engine: the board (Game.status), the move       *)
(* generator (Game.valid_moves_for_color), the Turn state machine and the  *)
(* two event handlers of the Board (board_click and the ai_move timer).    *)
(*                                                                         *)
(* Python's None is modelled by a sentinel of the type of the value it     *)
(* stands in for: EMPTY for a color (the winner), NoPiece for an occupant, *)
(* NoLoc for a location and NoMove for a Move.  A dict is modelled by the  *)
(* sequence of its <<key, value>> entries in insertion order.              *)
(***************************************************************************)
EXTENDS Integers, Sequences, FiniteSets, TLC

VARIABLES status, black_score, red_score, winner,
          black_possible_moves, red_possible_moves,
          current_turn, timers, turns, ev

vars == <<status, black_score, red_score, winner,
          black_possible_moves, red_possible_moves,
          current_turn, timers, turns, ev>>

----------------------------------------------------------------------------
(* constants.py *)

EMPTY == -1
BLACK == 0
RED == 1

BLACK_DIRECTIONS == << <<1, 1>>, <<1, -1>> >>
RED_DIRECTIONS == << <<-1, 1>>, <<-1, -1>> >>
KING_DIRECTIONS == << <<1, 1>>, <<-1, -1>>, <<1, -1>>, <<-1, 1>> >>

SIZE == 8

NEW_TURN == 0
VALID_PIECE_SELECTED == 1
CHECK_MULTIPLE_JUMPS == 2
MOVE_COMPLETE == 3

(* gamestate.py *)
BLACK_KING_ROW == 7
RED_KING_ROW == 0
BLACK_START_ROW == 0
BLACK_END_ROW == 2
RED_START_ROW == 5

----------------------------------------------------------------------------
(* The None values *)

NoLoc == <<EMPTY, EMPTY>>
NoPiece == [color |-> EMPTY, piece_directions |-> <<>>, is_king |-> FALSE]
NoMove == [current_loc |-> NoLoc, new_loc |-> NoLoc, capturing |-> NoLoc]

(* The locations of the cells of Game.status *)
Cells == (0 .. SIZE - 1) \X (0 .. SIZE - 1)

----------------------------------------------------------------------------
(* piece.py *)

Piece(color, piece_directions) ==
    [color |-> color, piece_directions |-> piece_directions, is_king |-> FALSE]

is_enemy(piece, player) == piece.color # player

(* make_king giving the directions and leaving the flag *)
make_king_directions_only(piece) ==
    [piece EXCEPT !.piece_directions = KING_DIRECTIONS]

(* make_king setting the flag and leaving the directions *)
make_king_flag_only(piece) == [piece EXCEPT !.is_king = TRUE]

make_king(piece) ==
    [piece EXCEPT !.piece_directions = KING_DIRECTIONS, !.is_king = TRUE]

(* cell.py: a Cell is its occupant; location and playable are fixed *)

is_empty(occupant) == occupant = NoPiece

contains_piece(occupant, color) ==
    IF is_empty(occupant) THEN FALSE ELSE occupant.color = color

(* move.py *)

Move(current_loc, new_loc, capturing) ==
    [current_loc |-> current_loc, new_loc |-> new_loc, capturing |-> capturing]

is_capture(move) == move.capturing # NoLoc

----------------------------------------------------------------------------
(* gamestate.py: the board and the move generator *)

is_dark(row, col) ==
    (row % 2 = 0 /\ col % 2 = 0) \/ (row % 2 = 1 /\ col % 2 = 1)

(* get_start_state without the empty rows in the middle *)
get_start_state_no_gap(row, col) ==
    IF is_dark(row, col)
    THEN NoPiece
    ELSE IF row >= BLACK_START_ROW /\ row <= BLACK_END_ROW
         THEN Piece(BLACK, BLACK_DIRECTIONS)
         ELSE Piece(RED, RED_DIRECTIONS)

get_start_state(row, col) ==
    IF is_dark(row, col) \/ (row > BLACK_END_ROW /\ row < RED_START_ROW)
    THEN NoPiece
    ELSE IF row >= BLACK_START_ROW /\ row <= BLACK_END_ROW
         THEN Piece(BLACK, BLACK_DIRECTIONS)
         ELSE Piece(RED, RED_DIRECTIONS)

(* Cell.playable of the cell new_game creates at location: the value of    *)
(* is_dark, never assigned again                                           *)
playable(location) == is_dark(location[1], location[2])

is_valid_cell(row, col) == row >= 0 /\ row < SIZE /\ col >= 0 /\ col < SIZE

(* get_next_cell_in_direction stepping along the column *)
get_next_cell_in_direction_straight(start, direction) ==
    <<start[1] + direction[1], start[2]>>

get_next_cell_in_direction(start, direction) ==
    <<start[1] + direction[1], start[2] + direction[2]>>

(* create_move without the test that the cell behind the enemy is empty *)
create_move_far_unchecked(st, start, next_cell, direction, piece_color) ==
    IF ~is_valid_cell(next_cell[1], next_cell[2])
    THEN NoMove
    ELSE LET check_cell == st[next_cell]
         IN IF is_empty(check_cell)
            THEN Move(start, next_cell, NoLoc)
            ELSE IF is_enemy(check_cell, piece_color)
                 THEN LET end_loc == get_next_cell_in_direction(next_cell, direction)
                      IN IF is_valid_cell(end_loc[1], end_loc[2])
                         THEN Move(start, end_loc, next_cell)
                         ELSE NoMove
                 ELSE NoMove

create_move(st, start, next_cell, direction, piece_color) ==
    IF ~is_valid_cell(next_cell[1], next_cell[2])
    THEN NoMove
    ELSE LET check_cell == st[next_cell]
         IN IF is_empty(check_cell)
            THEN Move(start, next_cell, NoLoc)
            ELSE IF is_enemy(check_cell, piece_color)
                 THEN LET end_loc == get_next_cell_in_direction(next_cell, direction)
                      IN IF is_valid_cell(end_loc[1], end_loc[2])
                            /\ is_empty(st[end_loc])
                         THEN Move(start, end_loc, next_cell)
                         ELSE NoMove
                 ELSE NoMove

(* the loop body with moves.append(move) for a capture too *)
add_move_appended(moves, move) ==
    IF move # NoMove THEN Append(moves, move) ELSE moves

(* the body of the loop over the piece's directions *)
add_move(moves, move) ==
    IF move # NoMove
    THEN IF is_capture(move) THEN <<move>> \o moves ELSE Append(moves, move)
    ELSE moves

RECURSIVE moves_in_directions(_, _, _, _, _)
moves_in_directions(st, cell_loc, piece_color, directions, moves) ==
    IF directions = <<>>
    THEN moves
    ELSE LET direction == Head(directions)
             next_loc == get_next_cell_in_direction(cell_loc, direction)
             move == create_move(st, cell_loc, next_loc, direction, piece_color)
         IN moves_in_directions(st, cell_loc, piece_color, Tail(directions),
                                add_move(moves, move))

get_moves_for_piece(st, cell_loc, piece_color) ==
    moves_in_directions(st, cell_loc, piece_color,
                        st[cell_loc].piece_directions, <<>>)

(* row by row, column by column: cell k is (k // SIZE, k % SIZE) *)
RECURSIVE cells_from(_, _, _)
cells_from(st, piece_color, k) ==
    IF k = SIZE * SIZE
    THEN <<>>
    ELSE LET loc == <<k \div SIZE, k % SIZE>>
         IN (IF contains_piece(st[loc], piece_color) THEN <<loc>> ELSE <<>>)
            \o cells_from(st, piece_color, k + 1)

all_cells_containing_color(st, piece_color) == cells_from(st, piece_color, 0)

RECURSIVE moves_for_pieces(_, _, _)
moves_for_pieces(st, piece_color, pieces) ==
    IF pieces = <<>>
    THEN <<>>
    ELSE LET location == Head(pieces)
             moves == get_moves_for_piece(st, location, piece_color)
         IN (IF Len(moves) > 0 THEN << <<location, moves>> >> ELSE <<>>)
            \o moves_for_pieces(st, piece_color, Tail(pieces))

valid_moves_for_color(st, piece_color) ==
    moves_for_pieces(st, piece_color,
                     all_cells_containing_color(st, piece_color))

(* dict operations: `key in d`, d[key], d.keys() *)
Keys(d) == [i \in 1 .. Len(d) |-> d[i][1]]
HasKey(d, key) == \E i \in 1 .. Len(d) : d[i][1] = key
Lookup(d, key) == d[CHOOSE i \in 1 .. Len(d) : d[i][1] = key][2]

----------------------------------------------------------------------------
(* turn.py *)

(* is_capture_required looking at the last Move of each list *)
is_capture_required_last(turn) ==
    \E i \in 1 .. Len(turn.valid_moves) :
        is_capture(turn.valid_moves[i][2][Len(turn.valid_moves[i][2])])

is_capture_required(turn) ==
    \E i \in 1 .. Len(turn.valid_moves) : is_capture(turn.valid_moves[i][2][1])

Turn(player, valid_moves) ==
    [player |-> player,
     step |-> NEW_TURN,
     valid_moves |-> valid_moves,
     capture_required |-> is_capture_required([valid_moves |-> valid_moves]),
     possible_targets |-> <<>>,
     final_move |-> NoMove]

is_turn_complete(turn) == turn.step = MOVE_COMPLETE

complete_turn(turn) == [turn EXCEPT !.step = MOVE_COMPLETE]

find_clicked_target(turn, cell_clicked) ==
    LET hits == {i \in 1 .. Len(turn.possible_targets) :
                     cell_clicked = turn.possible_targets[i].new_loc}
    IN IF hits = {}
       THEN NoMove
       ELSE turn.possible_targets[CHOOSE i \in hits : \A j \in hits : i <= j]

playable_cell_selected(turn, cell_clicked) ==
    IF turn.step = NEW_TURN
    THEN HasKey(turn.valid_moves, cell_clicked)
    ELSE IF ~is_turn_complete(turn)
         THEN find_clicked_target(turn, cell_clicked) # NoMove
         ELSE FALSE

(* allowed_start_piece without the forced-capture rule *)
allowed_start_piece_any(turn, cell_clicked) == TRUE

allowed_start_piece(turn, cell_clicked) ==
    ~is_capture_required(turn)
    \/ (is_capture_required(turn)
        /\ is_capture(Lookup(turn.valid_moves, cell_clicked)[1]))

finish_initial_selection(turn, start_loc) ==
    [turn EXCEPT !.step = turn.step + 1,
                 !.possible_targets = Lookup(turn.valid_moves, start_loc)]

(* finish_piece_move never setting MOVE_COMPLETE *)
finish_piece_move_never_completes(turn, move) ==
    [turn EXCEPT !.step = CHECK_MULTIPLE_JUMPS, !.final_move = move]

finish_piece_move(turn, move) ==
    [turn EXCEPT !.step = IF turn.capture_required
                          THEN CHECK_MULTIPLE_JUMPS
                          ELSE MOVE_COMPLETE,
                 !.final_move = move]

(* is_valid_turn committing any clicked target, capture or not *)
is_valid_turn_any_target(turn, cell_clicked) ==
    IF ~playable_cell_selected(turn, cell_clicked)
    THEN [ret |-> FALSE, turn |-> turn, printed |-> FALSE]
    ELSE IF turn.step = NEW_TURN /\ allowed_start_piece(turn, cell_clicked)
         THEN [ret |-> TRUE,
               turn |-> finish_initial_selection(turn, cell_clicked),
               printed |-> FALSE]
         ELSE LET target == find_clicked_target(turn, cell_clicked)
              IN IF target # NoMove
                 THEN [ret |-> TRUE,
                       turn |-> finish_piece_move(turn, target),
                       printed |-> FALSE]
                 ELSE [ret |-> FALSE, turn |-> turn, printed |-> TRUE]

(* is_valid_turn recording the selection before it checks the piece *)
is_valid_turn_selects_first(turn, cell_clicked) ==
    IF ~playable_cell_selected(turn, cell_clicked)
    THEN [ret |-> FALSE, turn |-> turn, printed |-> FALSE]
    ELSE IF turn.step = NEW_TURN
         THEN IF allowed_start_piece(turn, cell_clicked)
              THEN [ret |-> TRUE,
                    turn |-> finish_initial_selection(turn, cell_clicked),
                    printed |-> FALSE]
              ELSE [ret |-> FALSE,
                    turn |-> finish_initial_selection(turn, cell_clicked),
                    printed |-> TRUE]
         ELSE LET target == find_clicked_target(turn, cell_clicked)
              IN IF target # NoMove
                    /\ (is_capture(target) \/ ~is_capture_required(turn))
                 THEN [ret |-> TRUE,
                       turn |-> finish_piece_move(turn, target),
                       printed |-> FALSE]
                 ELSE [ret |-> FALSE, turn |-> turn, printed |-> TRUE]

(* The result: what is_valid_turn returns, the Turn it leaves, and whether *)
(* it printed "A capture is possible... piece MUST be captured!".          *)
is_valid_turn(turn, cell_clicked) ==
    IF ~playable_cell_selected(turn, cell_clicked)
    THEN [ret |-> FALSE, turn |-> turn, printed |-> FALSE]
    ELSE IF turn.step = NEW_TURN /\ allowed_start_piece(turn, cell_clicked)
         THEN [ret |-> TRUE,
               turn |-> finish_initial_selection(turn, cell_clicked),
               printed |-> FALSE]
         ELSE LET target == find_clicked_target(turn, cell_clicked)
              IN IF target # NoMove
                    /\ (is_capture(target) \/ ~is_capture_required(turn))
                 THEN [ret |-> TRUE,
                       turn |-> finish_piece_move(turn, target),
                       printed |-> FALSE]
                 ELSE [ret |-> FALSE, turn |-> turn, printed |-> TRUE]

(* the loop of choose_ai_cell without its break: the last such location *)
first_capture_location_no_break(turn) ==
    LET hits == {i \in 1 .. Len(turn.valid_moves) :
                     is_capture(turn.valid_moves[i][2][1])}
    IN IF hits = {}
       THEN NoLoc
       ELSE turn.valid_moves[CHOOSE i \in hits : \A j \in hits : i >= j][1]

(* the first location, in the order of the dict, whose list starts with a  *)
(* capture; None if there is none                                          *)
first_capture_location(turn) ==
    LET hits == {i \in 1 .. Len(turn.valid_moves) :
                     is_capture(turn.valid_moves[i][2][1])}
    IN IF hits = {}
       THEN NoLoc
       ELSE turn.valid_moves[CHOOSE i \in hits : \A j \in hits : i <= j][1]

(* choose_ai_cell committing the last Move of possible_targets *)
choose_ai_cell_last_target(turn, key_loc) ==
    IF turn.step = NEW_TURN
    THEN LET loc == IF turn.capture_required
                    THEN first_capture_location(turn)
                    ELSE Keys(turn.valid_moves)[key_loc + 1]
         IN [loc |-> loc, turn |-> finish_initial_selection(turn, loc)]
    ELSE IF turn.step = VALID_PIECE_SELECTED \/ turn.step = CHECK_MULTIPLE_JUMPS
         THEN LET last == turn.possible_targets[Len(turn.possible_targets)]
              IN [loc |-> last.new_loc, turn |-> finish_piece_move(turn, last)]
         ELSE [loc |-> NoLoc, turn |-> turn]

(* choose_ai_cell picking a random piece also when a capture is required *)
choose_ai_cell_any_key(turn, key_loc) ==
    IF turn.step = NEW_TURN
    THEN LET loc == Keys(turn.valid_moves)[key_loc + 1]
         IN [loc |-> loc, turn |-> finish_initial_selection(turn, loc)]
    ELSE IF turn.step = VALID_PIECE_SELECTED \/ turn.step = CHECK_MULTIPLE_JUMPS
         THEN [loc |-> turn.possible_targets[1].new_loc,
               turn |-> finish_piece_move(turn, turn.possible_targets[1])]
         ELSE [loc |-> NoLoc, turn |-> turn]

(* key_loc is the value random.randint(0, len(valid_moves) - 1) returns *)
choose_ai_cell(turn, key_loc) ==
    IF turn.step = NEW_TURN
    THEN LET loc == IF turn.capture_required
                    THEN first_capture_location(turn)
                    ELSE Keys(turn.valid_moves)[key_loc + 1]
         IN [loc |-> loc, turn |-> finish_initial_selection(turn, loc)]
    ELSE IF turn.step = VALID_PIECE_SELECTED \/ turn.step = CHECK_MULTIPLE_JUMPS
         THEN [loc |-> turn.possible_targets[1].new_loc,
               turn |-> finish_piece_move(turn, turn.possible_targets[1])]
         ELSE [loc |-> NoLoc, turn |-> turn]

----------------------------------------------------------------------------
(* gamestate.py: the Game.  g is the record of the Game's attributes. *)

(* check_game_over looking at RED's moves first *)
check_game_over_red_first(g) ==
    IF Len(g.red_possible_moves) = 0
    THEN [g EXCEPT !.winner = BLACK]
    ELSE IF Len(g.black_possible_moves) = 0
         THEN [g EXCEPT !.winner = RED]
         ELSE g

check_game_over(g) ==
    IF Len(g.black_possible_moves) = 0
    THEN [g EXCEPT !.winner = RED]
    ELSE IF Len(g.red_possible_moves) = 0
         THEN [g EXCEPT !.winner = BLACK]
         ELSE g

populate_valid_moves(g) ==
    check_game_over(
        [g EXCEPT !.black_possible_moves = valid_moves_for_color(g.status, BLACK),
                  !.red_possible_moves = valid_moves_for_color(g.status, RED)])

(* the leading capturing Moves of a list: the loop that stops at the first *)
(* Move that is not a capture                                              *)
RECURSIVE leading_captures(_)
leading_captures(moves) ==
    IF moves = <<>>
    THEN <<>>
    ELSE IF is_capture(Head(moves))
         THEN <<Head(moves)>> \o leading_captures(Tail(moves))
         ELSE <<>>

(* the continuation query without the filter on captures *)
possible_capture_all(g, start_cell, piece_color) ==
    LET moves == valid_moves_for_color(g.status, piece_color)
    IN IF HasKey(moves, start_cell) THEN Lookup(moves, start_cell) ELSE <<>>

(* the list get_additional_jump returns *)
possible_capture(g, start_cell, piece_color) ==
    LET moves == valid_moves_for_color(g.status, piece_color)
    IN IF HasKey(moves, start_cell)
       THEN leading_captures(Lookup(moves, start_cell))
       ELSE <<>>

(* get_additional_jump without the call of complete_turn *)
get_additional_jump_never_completes(g, start_cell, piece_color) == g

(* get_additional_jump completing the Turn whatever it found *)
get_additional_jump_always_completes(g, start_cell, piece_color) ==
    [g EXCEPT !.current_turn = complete_turn(g.current_turn)]

(* the Game get_additional_jump leaves *)
get_additional_jump(g, start_cell, piece_color) ==
    IF Len(possible_capture(g, start_cell, piece_color)) = 0
    THEN [g EXCEPT !.current_turn = complete_turn(g.current_turn)]
    ELSE g

(* extend_turn leaving the Turn without a target *)
extend_turn_no_targets(g, options) ==
    [g EXCEPT !.current_turn.final_move = NoMove,
              !.current_turn.possible_targets = <<>>]

(* extend_turn keeping the targets of the jump just made *)
extend_turn_keeps_targets(g, options) ==
    [g EXCEPT !.current_turn.final_move = NoMove]

extend_turn(g, options) ==
    [g EXCEPT !.current_turn.final_move = NoMove,
              !.current_turn.possible_targets = options]

(* update_state without the promotion *)
update_state_no_promotion(g, move) ==
    LET moved == [g.status EXCEPT ![move.new_loc] = g.status[move.current_loc]]
        left == [moved EXCEPT ![move.current_loc] = NoPiece]
    IN IF is_capture(move)
       THEN [g EXCEPT !.status = [left EXCEPT ![move.capturing] = NoPiece],
                      !.black_score = IF g.current_turn.player = BLACK
                                      THEN g.black_score + 1
                                      ELSE g.black_score,
                      !.red_score = IF g.current_turn.player = BLACK
                                    THEN g.red_score
                                    ELSE g.red_score + 1]
       ELSE [g EXCEPT !.status = left]

(* update_state taking the captured piece without counting it *)
update_state_no_score(g, move) ==
    LET moved == [g.status EXCEPT ![move.new_loc] = g.status[move.current_loc]]
        kinged == IF (move.new_loc[1] = BLACK_KING_ROW
                      /\ contains_piece(moved[move.new_loc], BLACK))
                     \/ (move.new_loc[1] = RED_KING_ROW
                         /\ contains_piece(moved[move.new_loc], RED))
                  THEN [moved EXCEPT ![move.new_loc] = make_king(moved[move.new_loc])]
                  ELSE moved
        left == [kinged EXCEPT ![move.current_loc] = NoPiece]
    IN IF is_capture(move)
       THEN [g EXCEPT !.status = [left EXCEPT ![move.capturing] = NoPiece]]
       ELSE [g EXCEPT !.status = left]

(* update_state leaving the captured piece on the board *)
update_state_keeps_captured(g, move) ==
    LET moved == [g.status EXCEPT ![move.new_loc] = g.status[move.current_loc]]
        kinged == IF (move.new_loc[1] = BLACK_KING_ROW
                      /\ contains_piece(moved[move.new_loc], BLACK))
                     \/ (move.new_loc[1] = RED_KING_ROW
                         /\ contains_piece(moved[move.new_loc], RED))
                  THEN [moved EXCEPT ![move.new_loc] = make_king(moved[move.new_loc])]
                  ELSE moved
        left == [kinged EXCEPT ![move.current_loc] = NoPiece]
    IN IF is_capture(move)
       THEN [g EXCEPT !.status = left,
                      !.black_score = IF g.current_turn.player = BLACK
                                      THEN g.black_score + 1
                                      ELSE g.black_score,
                      !.red_score = IF g.current_turn.player = BLACK
                                    THEN g.red_score
                                    ELSE g.red_score + 1]
       ELSE [g EXCEPT !.status = left]

update_state(g, move) ==
    LET moved == [g.status EXCEPT ![move.new_loc] = g.status[move.current_loc]]
        kinged == IF (move.new_loc[1] = BLACK_KING_ROW
                      /\ contains_piece(moved[move.new_loc], BLACK))
                     \/ (move.new_loc[1] = RED_KING_ROW
                         /\ contains_piece(moved[move.new_loc], RED))
                  THEN [moved EXCEPT ![move.new_loc] = make_king(moved[move.new_loc])]
                  ELSE moved
        left == [kinged EXCEPT ![move.current_loc] = NoPiece]
    IN IF is_capture(move)
       THEN [g EXCEPT !.status = [left EXCEPT ![move.capturing] = NoPiece],
                      !.black_score = IF g.current_turn.player = BLACK
                                      THEN g.black_score + 1
                                      ELSE g.black_score,
                      !.red_score = IF g.current_turn.player = BLACK
                                    THEN g.red_score
                                    ELSE g.red_score + 1]
       ELSE [g EXCEPT !.status = left]

(* advance_turn without the call of populate_valid_moves *)
advance_turn_stale(g) ==
    IF g.current_turn.player = BLACK /\ Len(g.red_possible_moves) > 0
    THEN [g EXCEPT !.current_turn = Turn(RED, g.red_possible_moves)]
    ELSE IF Len(g.black_possible_moves) > 0
         THEN [g EXCEPT !.current_turn = Turn(BLACK, g.black_possible_moves)]
         ELSE g

(* advance_turn handing the turn over without asking whether RED can move *)
advance_turn_alternates(g) ==
    LET p == populate_valid_moves(g)
    IN IF p.current_turn.player = BLACK
       THEN [p EXCEPT !.current_turn = Turn(RED, p.red_possible_moves)]
       ELSE IF Len(p.black_possible_moves) > 0
            THEN [p EXCEPT !.current_turn = Turn(BLACK, p.black_possible_moves)]
            ELSE p

advance_turn(g) ==
    LET p == populate_valid_moves(g)
    IN IF p.current_turn.player = BLACK /\ Len(p.red_possible_moves) > 0
       THEN [p EXCEPT !.current_turn = Turn(RED, p.red_possible_moves)]
       ELSE IF Len(p.black_possible_moves) > 0
            THEN [p EXCEPT !.current_turn = Turn(BLACK, p.black_possible_moves)]
            ELSE p

----------------------------------------------------------------------------
(* board.py: the two event handlers.  b is [g |-> the Game, timers |-> the *)
(* number of ai_move callbacks screen.ontimer holds].  Drawing is left out.*)

(* make_move without the call of extend_turn *)
make_move_no_extend(g, location) ==
    IF g.current_turn.step = VALID_PIECE_SELECTED
    THEN g
    ELSE LET move == g.current_turn.final_move
             u == update_state(g, move)
         IN IF is_capture(move)
            THEN get_additional_jump(u, move.new_loc, u.current_turn.player)
            ELSE u

make_move(g, location) ==
    IF g.current_turn.step = VALID_PIECE_SELECTED
    THEN g
    ELSE LET move == g.current_turn.final_move
             u == update_state(g, move)
         IN IF is_capture(move)
            THEN LET additional_jumps ==
                         possible_capture(u, move.new_loc, u.current_turn.player)
                     a == get_additional_jump(u, move.new_loc,
                                              u.current_turn.player)
                 IN IF Len(additional_jumps) > 0
                    THEN extend_turn(a, additional_jumps)
                    ELSE a
            ELSE u

(* next_player starting the timer whoever is to move *)
next_player_always_timer(b) ==
    [g |-> advance_turn(b.g), timers |-> b.timers + 1]

next_player(b) ==
    LET a == advance_turn(b.g)
    IN [g |-> a,
        timers |-> IF a.winner # EMPTY
                   THEN b.timers
                   ELSE IF a.current_turn.player = RED
                        THEN b.timers + 1
                        ELSE b.timers]

(* board_click without the call of next_player *)
board_click_no_advance(b, location) ==
    IF b.g.current_turn.player = BLACK
    THEN LET v == is_valid_turn(b.g.current_turn, location)
         IN IF v.ret
            THEN [b EXCEPT !.g = make_move([b.g EXCEPT !.current_turn = v.turn],
                                           location)]
            ELSE b
    ELSE b

(* location is (get_cell(y), get_cell(x)) of a click inside the board *)
board_click(b, location) ==
    IF b.g.current_turn.player = BLACK
    THEN LET v == is_valid_turn(b.g.current_turn, location)
         IN IF v.ret
            THEN LET m == make_move([b.g EXCEPT !.current_turn = v.turn], location)
                 IN IF is_turn_complete(m.current_turn)
                    THEN next_player([b EXCEPT !.g = m])
                    ELSE [b EXCEPT !.g = m]
            ELSE b
    ELSE b

(* b.timers counts the callbacks left once this one has been taken *)
ai_move(b, key_loc) ==
    LET c == choose_ai_cell(b.g.current_turn, key_loc)
        m == make_move([b.g EXCEPT !.current_turn = c.turn], c.loc)
    IN IF m.current_turn.player = RED /\ ~is_turn_complete(m.current_turn)
       THEN [g |-> m, timers |-> b.timers + 1]
       ELSE [g |-> advance_turn(m), timers |-> b.timers]

(* Game.__init__ and new_game *)
new_game ==
    LET st == [loc \in Cells |-> get_start_state(loc[1], loc[2])]
        p == populate_valid_moves([status |-> st,
                                   black_score |-> 0,
                                   red_score |-> 0,
                                   winner |-> EMPTY,
                                   black_possible_moves |-> <<>>,
                                   red_possible_moves |-> <<>>])
    IN [status |-> p.status,
        black_score |-> 0,
        red_score |-> 0,
        winner |-> EMPTY,
        black_possible_moves |-> p.black_possible_moves,
        red_possible_moves |-> p.red_possible_moves,
        current_turn |-> Turn(BLACK, p.black_possible_moves)]

----------------------------------------------------------------------------
(* Positions of a game in progress, each taken at the start of a Turn      *)
(* (right after advance_turn) from a game the engine played from the start *)
(* position, BLACK by clicks and RED by ai_move.                           *)

man(color) ==
    Piece(color, IF color = BLACK THEN BLACK_DIRECTIONS ELSE RED_DIRECTIONS)

king(color) == make_king(man(color))

(* the Game at the start of player's Turn on the board that holds pieces,  *)
(* as advance_turn leaves it when player has a move                        *)
game_at(pieces, black_pts, red_pts, player) ==
    LET st == [loc \in Cells |->
                   IF loc \in DOMAIN pieces THEN pieces[loc] ELSE NoPiece]
        p == populate_valid_moves([status |-> st,
                                   black_score |-> black_pts,
                                   red_score |-> red_pts,
                                   winner |-> EMPTY,
                                   black_possible_moves |-> <<>>,
                                   red_possible_moves |-> <<>>])
    IN [status |-> p.status,
        black_score |-> black_pts,
        red_score |-> red_pts,
        winner |-> p.winner,
        black_possible_moves |-> p.black_possible_moves,
        red_possible_moves |-> p.red_possible_moves,
        current_turn |-> Turn(player, IF player = BLACK
                                      THEN p.black_possible_moves
                                      ELSE p.red_possible_moves)]

(*  4 .....B..     BLACK must capture from (4,5) and can go on from (2,7); *)
(*  3 ......R.     the king on (0,1) has no capture                        *)
(*  1 ......R.                                                             *)
(*  0 .B......                                                             *)
black_chain ==
    game_at(<<0, 1>> :> king(BLACK) @@ <<1, 6>> :> king(RED)
            @@ <<3, 6>> :> king(RED) @@ <<4, 5>> :> king(BLACK),
            10, 10, BLACK)

(*  6 ...B....     RED must capture from (3,6) and can go on from (5,4)    *)
(*  4 .....B..                                                             *)
(*  3 ......R.                                                             *)
(*  2 .......R                                                             *)
red_chain ==
    game_at(<<2, 7>> :> king(RED) @@ <<3, 6>> :> king(RED)
            @@ <<4, 5>> :> king(BLACK) @@ <<6, 3>> :> king(BLACK),
            10, 10, RED)

(*  6 ...b....     the BLACK man is one step from row 7                    *)
(*  4 .R......                                                             *)
black_crown ==
    game_at(<<4, 1>> :> king(RED) @@ <<6, 3>> :> man(BLACK), 11, 11, BLACK)

(*  2 ...B....     the RED man is one step from row 0                      *)
(*  1 ......r.                                                             *)
red_crown ==
    game_at(<<1, 6>> :> man(RED) @@ <<2, 3>> :> king(BLACK), 11, 11, RED)

(*  6 .r.r....     the BLACK man captures onto row 7 and, crowned, can     *)
(*  5 b.......     capture backwards from there                            *)
(*  4 ...r.r.r                                                             *)
(*  2 ...R....                                                             *)
black_crown_chain ==
    game_at(<<2, 3>> :> king(RED) @@ <<4, 3>> :> man(RED) @@ <<4, 5>> :> man(RED)
            @@ <<4, 7>> :> man(RED) @@ <<5, 0>> :> man(BLACK)
            @@ <<6, 1>> :> man(RED) @@ <<6, 3>> :> man(RED),
            6, 11, BLACK)

(*  5 ..b...b.     the RED man captures onto row 0 and, crowned, can       *)
(*  2 .......r     capture backwards from there                            *)
(*  1 ..R.b.b.                                                             *)
red_crown_chain ==
    game_at(<<1, 2>> :> king(RED) @@ <<1, 4>> :> man(BLACK) @@ <<1, 6>> :> man(BLACK)
            @@ <<2, 7>> :> man(RED) @@ <<5, 2>> :> man(BLACK)
            @@ <<5, 6>> :> man(BLACK),
            10, 8, RED)

(*  6 .......R     RED's only move is to (5,6), where BLACK captures       *)
(*  4 .......B     RED's last piece                                        *)
black_takes_last ==
    game_at(<<4, 7>> :> king(BLACK) @@ <<6, 7>> :> king(RED), 11, 11, RED)

(*  6 .....R..     BLACK can move next to the RED king, which then         *)
(*  4 ...B....     captures BLACK's last piece                             *)
red_takes_last ==
    game_at(<<4, 3>> :> king(BLACK) @@ <<6, 5>> :> king(RED), 11, 11, BLACK)

(*  7 ......r.     after RED's move BLACK's only man can be left with no   *)
(*  5 ......b.     move                                                    *)
(*  3 ..r.....                                                             *)
(*  2 .....R..                                                             *)
black_blocked ==
    game_at(<<2, 5>> :> king(RED) @@ <<3, 2>> :> man(RED)
            @@ <<5, 6>> :> man(BLACK) @@ <<7, 6>> :> man(RED),
            9, 11, RED)

(*  7 B.B.B.B.     BLACK has taken all RED pieces and plays on alone: the  *)
(*  6 ...b.b.b     winner is BLACK and advance_turn has made a BLACK Turn; *)
(*  5 ........     after (4,3) to (5,2) and (5,2) to (6,1) no BLACK piece  *)
(*  4 ...b....     can move                                                *)
black_alone ==
    game_at(<<7, 0>> :> king(BLACK) @@ <<7, 2>> :> king(BLACK)
            @@ <<7, 4>> :> king(BLACK) @@ <<7, 6>> :> king(BLACK)
            @@ <<6, 3>> :> man(BLACK) @@ <<6, 5>> :> man(BLACK)
            @@ <<6, 7>> :> man(BLACK) @@ <<4, 3>> :> man(BLACK),
            12, 4, BLACK)

Positions ==
    {new_game, black_chain, red_chain, black_crown, red_crown,
     black_crown_chain, red_crown_chain, black_takes_last, red_takes_last,
     black_blocked, black_alone}

----------------------------------------------------------------------------
(* The state machine *)

(* the number of Turns played from the first position *)
MaxTurns == 3

(* the cells a click inside the board can give: get_cell is SIZE for a     *)
(* click on the top or right edge                                          *)
ClickCells == (0 .. SIZE) \X (0 .. SIZE)

(* the Game as a record *)
G ==
    [status |-> status,
     black_score |-> black_score,
     red_score |-> red_score,
     winner |-> winner,
     black_possible_moves |-> black_possible_moves,
     red_possible_moves |-> red_possible_moves,
     current_turn |-> current_turn]

(* the state after a handler that leaves board b *)
Becomes(b) ==
    /\ status' = b.g.status
    /\ black_score' = b.g.black_score
    /\ red_score' = b.g.red_score
    /\ winner' = b.g.winner
    /\ black_possible_moves' = b.g.black_possible_moves
    /\ red_possible_moves' = b.g.red_possible_moves
    /\ current_turn' = b.g.current_turn
    /\ timers' = b.timers

(* ev records what the last handler did: which handler ran, the Turn it    *)
(* found (before), whether is_valid_turn was called, what it returned and  *)
(* whether it printed, the cell choose_ai_cell returned, the Turn after    *)
(* the selection (selected), the Move given to update_state and the piece  *)
(* it found on the Move's source cell, the list get_additional_jump        *)
(* returned, the Turn after make_move (made) and whether advance_turn was  *)
(* called.                                                                 *)
NoEvent(turn) ==
    [handler |-> "", before |-> turn, called |-> FALSE, ret |-> FALSE,
     printed |-> FALSE, location |-> NoLoc, selected |-> turn,
     move |-> NoMove, piece |-> NoPiece, additional_jumps |-> <<>>,
     made |-> turn, advanced |-> FALSE]

(* what make_move does with the Game g that holds the selected Turn *)
MoveEvent(e, g) ==
    LET move == IF g.current_turn.step = VALID_PIECE_SELECTED
                THEN NoMove
                ELSE g.current_turn.final_move
        m == make_move(g, e.location)
    IN [e EXCEPT !.selected = g.current_turn,
                 !.move = move,
                 !.piece = IF move = NoMove
                           THEN NoPiece
                           ELSE g.status[move.current_loc],
                 !.additional_jumps =
                     IF is_capture(move)
                     THEN possible_capture(update_state(g, move), move.new_loc,
                                           g.current_turn.player)
                     ELSE <<>>,
                 !.made = m.current_turn]

Init ==
    \E g \in Positions :
        /\ status = g.status
        /\ black_score = g.black_score
        /\ red_score = g.red_score
        /\ winner = g.winner
        /\ black_possible_moves = g.black_possible_moves
        /\ red_possible_moves = g.red_possible_moves
        /\ current_turn = g.current_turn
        /\ timers = IF g.current_turn.player = RED THEN 1 ELSE 0
        /\ turns = 0
        /\ ev = NoEvent(g.current_turn)

BoardClick(location) ==
    /\ turns < MaxTurns
    /\ LET b == [g |-> G, timers |-> timers]
           v == is_valid_turn(current_turn, location)
           called == current_turn.player = BLACK
           e == [NoEvent(current_turn) EXCEPT !.handler = "board_click",
                                              !.called = called,
                                              !.ret = called /\ v.ret,
                                              !.printed = called /\ v.printed]
           after == [G EXCEPT !.current_turn = v.turn]
           done == called /\ v.ret /\ is_turn_complete(make_move(after, location).current_turn)
       IN /\ Becomes(board_click(b, location))
          /\ ev' = IF called /\ v.ret
                   THEN [MoveEvent(e, after) EXCEPT !.advanced = done]
                   ELSE e
          /\ turns' = IF done THEN turns + 1 ELSE turns

AiMove(key_loc) ==
    /\ turns < MaxTurns
    /\ timers > 0
    /\ LET b == [g |-> G, timers |-> timers - 1]
           c == choose_ai_cell(current_turn, key_loc)
           after == [G EXCEPT !.current_turn = c.turn]
           m == make_move(after, c.loc)
           done == ~(m.current_turn.player = RED /\ ~is_turn_complete(m.current_turn))
           e == [NoEvent(current_turn) EXCEPT !.handler = "ai_move",
                                              !.location = c.loc]
       IN /\ Becomes(ai_move(b, key_loc))
          /\ ev' = [MoveEvent(e, after) EXCEPT !.advanced = done]
          /\ turns' = IF done THEN turns + 1 ELSE turns

Next ==
    \/ \E location \in ClickCells : BoardClick(location)
    \/ \E key_loc \in 0 .. (Len(current_turn.valid_moves) - 1) : AiMove(key_loc)

Spec == Init /\ [][Next]_vars

(* The event loop serves the events: it runs a pending ai_move timer, and  *)
(* the player is taken to go on clicking until a click is accepted.        *)
(* CanAccept says that a step in which a selection is accepted can be      *)
(* taken: BLACK's Turn has a cell is_valid_turn accepts, or RED's Turn has *)
(* a timer pending.  AcceptedStep is such a step.  Fairness is weak        *)
(* fairness of the accepted steps, its enabling condition written out.     *)
CanAccept ==
    /\ turns < MaxTurns
    /\ current_turn.step # MOVE_COMPLETE
    /\ IF current_turn.player = BLACK
       THEN \E location \in ClickCells :
                is_valid_turn(current_turn, location).ret
       ELSE timers > 0 /\ Len(current_turn.valid_moves) > 0

AcceptedStep ==
    ev'.handler = "ai_move" \/ (ev'.handler = "board_click" /\ ev'.ret)

Fairness == ([]<>~CanAccept) \/ ([]<><<AcceptedStep>>_vars)

LiveSpec == Init /\ [][Next]_vars /\ Fairness

----------------------------------------------------------------------------
(* The reference rules of the game, stated on a board st *)

OnBoard(loc) == loc[1] \in 0 .. SIZE - 1 /\ loc[2] \in 0 .. SIZE - 1

Steps(loc, d, n) == <<loc[1] + n * d[1], loc[2] + n * d[2]>>

DirectionSet(piece) ==
    {piece.piece_directions[i] : i \in DOMAIN piece.piece_directions}

(* the directions in which the piece on loc can step to the adjacent cell *)
StepDirections(st, loc) ==
    {d \in DirectionSet(st[loc]) :
         OnBoard(Steps(loc, d, 1)) /\ st[Steps(loc, d, 1)] = NoPiece}

(* the directions in which the piece on loc can jump over an enemy *)
JumpDirections(st, loc) ==
    {d \in DirectionSet(st[loc]) :
         /\ OnBoard(Steps(loc, d, 2))
         /\ st[Steps(loc, d, 1)] # NoPiece
         /\ st[Steps(loc, d, 1)].color # st[loc].color
         /\ st[Steps(loc, d, 2)] = NoPiece}

LegalMoves(st, loc) ==
    {[current_loc |-> loc, new_loc |-> Steps(loc, d, 1), capturing |-> NoLoc] :
         d \in StepDirections(st, loc)}
    \cup {[current_loc |-> loc, new_loc |-> Steps(loc, d, 2),
           capturing |-> Steps(loc, d, 1)] : d \in JumpDirections(st, loc)}

Elements(list) == {list[i] : i \in 1 .. Len(list)}

CaptureFirst(list) ==
    \A i, j \in 1 .. Len(list) :
        (i < j /\ list[j].capturing # NoLoc) => list[i].capturing # NoLoc

----------------------------------------------------------------------------
(* C1: on every board and for either color, valid_moves_for_color returns  *)
(* exactly the reference moves: one entry for each piece of the color that *)
(* has a legal move and for no other cell, no entry with an empty list,    *)
(* and in each entry exactly the piece's legal steps and jumps, each once; *)
(* so every destination is on the board and empty.                         *)
C1_MovesOfColor(st, color) ==
    LET vm == valid_moves_for_color(st, color)
    IN /\ \A i, j \in 1 .. Len(vm) : vm[i][1] = vm[j][1] => i = j
       /\ {vm[i][1] : i \in 1 .. Len(vm)}
              = {loc \in Cells : /\ st[loc] # NoPiece
                                 /\ st[loc].color = color
                                 /\ LegalMoves(st, loc) # {}}
       /\ \A i \in 1 .. Len(vm) :
              /\ Len(vm[i][2]) > 0
              /\ Elements(vm[i][2]) = LegalMoves(st, vm[i][1])
              /\ Len(vm[i][2]) = Cardinality(LegalMoves(st, vm[i][1]))
              /\ \A k \in 1 .. Len(vm[i][2]) :
                     /\ OnBoard(vm[i][2][k].new_loc)
                     /\ st[vm[i][2][k].new_loc] = NoPiece

C1_ReferenceMoves ==
    \A color \in {BLACK, RED} : C1_MovesOfColor(status, color)

(* advance_turn has just generated BLACK's moves on this board, and a      *)
(* piece has both a capturing and a non-capturing Move                     *)
C1_Witness ==
    /\ ev.advanced
    /\ black_possible_moves = valid_moves_for_color(status, BLACK)
    /\ \E i \in 1 .. Len(black_possible_moves) :
           /\ \E m \in Elements(black_possible_moves[i][2]) : m.capturing # NoLoc
           /\ \E m \in Elements(black_possible_moves[i][2]) : m.capturing = NoLoc

(* C2: capture-first ordering: in every list get_moves_for_piece produces, *)
(* in every value of a legal-move mapping and in every possible_targets    *)
(* list, all capturing Moves precede all non-capturing Moves.              *)
C2_CaptureFirstOrdering ==
    /\ \A loc \in Cells :
           status[loc] # NoPiece
               => CaptureFirst(get_moves_for_piece(status, loc, status[loc].color))
    /\ \A d \in {black_possible_moves, red_possible_moves,
                 current_turn.valid_moves, ev.before.valid_moves,
                 valid_moves_for_color(status, BLACK),
                 valid_moves_for_color(status, RED)} :
           \A i \in 1 .. Len(d) : CaptureFirst(d[i][2])
    /\ CaptureFirst(current_turn.possible_targets)
    /\ CaptureFirst(ev.selected.possible_targets)
    /\ CaptureFirst(ev.made.possible_targets)
    /\ CaptureFirst(ev.additional_jumps)

(* the selected piece's list holds a capture found in a later direction    *)
(* than the non-capturing Moves that follow it                             *)
C2_Witness ==
    /\ ev.ret
    /\ current_turn.step = VALID_PIECE_SELECTED
    /\ Len(current_turn.possible_targets) >= 2
    /\ current_turn.possible_targets[1].capturing # NoLoc
    /\ current_turn.possible_targets[2].capturing = NoLoc
    /\ LET loc == current_turn.possible_targets[1].current_loc
           dirs == status[loc].piece_directions
       IN \E i, j \in 1 .. Len(dirs) :
              /\ i < j
              /\ Steps(loc, dirs[i], 1) = current_turn.possible_targets[2].new_loc
              /\ Steps(loc, dirs[j], 2) = current_turn.possible_targets[1].new_loc

(* C3: a Turn's capture_required is true iff some list of its legal moves  *)
(* begins with a capture, and that is so iff the player has any capturing  *)
(* Move on the board the Turn was created from (the board of a Turn that   *)
(* is still in NEW_TURN).                                                  *)
C3_CaptureRequired ==
    /\ current_turn.capture_required
           <=> \E i \in 1 .. Len(current_turn.valid_moves) :
                   current_turn.valid_moves[i][2][1].capturing # NoLoc
    /\ current_turn.step = NEW_TURN
           => (current_turn.capture_required
                   <=> \E loc \in Cells :
                           /\ status[loc] # NoPiece
                           /\ status[loc].color = current_turn.player
                           /\ JumpDirections(status, loc) # {})

(* a new Turn in which a capture is required while another piece's list    *)
(* begins with a non-capturing Move                                        *)
C3_Witness ==
    /\ ev.advanced
    /\ current_turn.step = NEW_TURN
    /\ current_turn.capture_required
    /\ \E i \in 1 .. Len(current_turn.valid_moves) :
           current_turn.valid_moves[i][2][1].capturing = NoLoc

(* C4: in NEW_TURN is_valid_turn accepts a cell iff it is a key of the     *)
(* Turn's legal moves and capture is not required or the cell's first Move *)
(* is a capture; on acceptance possible_targets is legalMoves[cell] and    *)
(* step is VALID_PIECE_SELECTED.  So with capture_required every selection *)
(* of a piece whose first Move is no capture is rejected; and so did every *)
(* click that board_click handed to a Turn in NEW_TURN.                    *)
C4_Allowed(turn, i) ==
    ~turn.capture_required \/ turn.valid_moves[i][2][1].capturing # NoLoc

C4_NewTurnSelection ==
    /\ current_turn.step = NEW_TURN
           => \A loc \in ClickCells :
                  LET r == is_valid_turn(current_turn, loc)
                      entries == {i \in 1 .. Len(current_turn.valid_moves) :
                                      current_turn.valid_moves[i][1] = loc}
                  IN /\ r.ret <=> \E i \in entries : C4_Allowed(current_turn, i)
                     /\ r.ret
                            => /\ \E i \in entries :
                                      r.turn.possible_targets
                                          = current_turn.valid_moves[i][2]
                               /\ r.turn.step = VALID_PIECE_SELECTED
    /\ (ev.handler = "board_click" /\ ev.called /\ ev.before.step = NEW_TURN)
           => /\ ev.ret
                     => /\ ev.selected.step = VALID_PIECE_SELECTED
                        /\ current_turn = ev.selected
                        /\ \E i \in 1 .. Len(ev.before.valid_moves) :
                               /\ C4_Allowed(ev.before, i)
                               /\ ev.selected.possible_targets
                                      = ev.before.valid_moves[i][2]
              /\ (~ev.ret /\ ev.printed) => ev.before.capture_required

(* a click on a piece that cannot capture was rejected, with the message,  *)
(* in a Turn that requires a capture                                       *)
C4_Witness ==
    /\ ev.handler = "board_click"
    /\ ev.called
    /\ ~ev.ret
    /\ ev.printed
    /\ ev.before.step = NEW_TURN
    /\ ev.before.capture_required
    /\ current_turn.step = NEW_TURN

(* C5: in VALID_PIECE_SELECTED or CHECK_MULTIPLE_JUMPS is_valid_turn       *)
(* accepts a cell iff it is the new_loc of a Move of possible_targets that *)
(* is a capture, or no capture is required this turn; on acceptance        *)
(* final_move is that Move and step is CHECK_MULTIPLE_JUMPS if             *)
(* capture_required, else MOVE_COMPLETE.                                   *)
C5_StepAfter(turn) ==
    IF turn.capture_required THEN CHECK_MULTIPLE_JUMPS ELSE MOVE_COMPLETE

C5_TargetSelection ==
    /\ current_turn.step \in {VALID_PIECE_SELECTED, CHECK_MULTIPLE_JUMPS}
           => \A loc \in ClickCells :
                  LET r == is_valid_turn(current_turn, loc)
                      pt == current_turn.possible_targets
                      ok == {i \in 1 .. Len(pt) :
                                 /\ pt[i].new_loc = loc
                                 /\ (pt[i].capturing # NoLoc
                                     \/ ~current_turn.capture_required)}
                  IN /\ r.ret <=> ok # {}
                     /\ r.ret
                            => /\ \E i \in ok : r.turn.final_move = pt[i]
                               /\ r.turn.step = C5_StepAfter(current_turn)
                               /\ r.turn.possible_targets = pt
    /\ (/\ ev.handler = "board_click"
        /\ ev.ret
        /\ ev.before.step \in {VALID_PIECE_SELECTED, CHECK_MULTIPLE_JUMPS})
           => /\ ev.selected.final_move = ev.move
              /\ ev.move \in Elements(ev.before.possible_targets)
              /\ ev.move.capturing # NoLoc \/ ~ev.before.capture_required
              /\ ev.selected.step = C5_StepAfter(ev.before)

(* the second jump of a chain was clicked and accepted *)
C5_Witness ==
    /\ ev.handler = "board_click"
    /\ ev.ret
    /\ ev.before.step = CHECK_MULTIPLE_JUMPS
    /\ ev.move.capturing # NoLoc
    /\ ev.selected.step = CHECK_MULTIPLE_JUMPS

(* C6: a rejected selection changes nothing: whenever is_valid_turn        *)
(* returns False the Turn it leaves is the Turn it found, and the click    *)
(* that was rejected left the Turn, the board, the scores, the winner and  *)
(* the legal moves as they were.                                           *)
C6_TurnUntouched ==
    \A loc \in ClickCells :
        LET r == is_valid_turn(current_turn, loc)
        IN ~r.ret => r.turn = current_turn

C6_ClickRejected ==
    (ev'.handler = "board_click" /\ ev'.called /\ ~ev'.ret)
        => /\ UNCHANGED <<status, black_score, red_score, winner,
                          black_possible_moves, red_possible_moves,
                          current_turn, timers>>
           /\ ev'.before = current_turn
           /\ ev'.move = NoMove
           /\ ~ev'.advanced

C6_RejectionChangesNothing == []C6_TurnUntouched /\ [][C6_ClickRejected]_vars

(* a click on a cell that is no target of the selected piece was rejected *)
C6_Witness ==
    /\ ev.handler = "board_click"
    /\ ev.called
    /\ ~ev.ret
    /\ ~ev.printed
    /\ ev.before.step = VALID_PIECE_SELECTED
    /\ current_turn = ev.before

(* C7: after a capturing Move is applied, the list get_additional_jump    *)
(* returns for the landing cell holds only capturing Moves that start on   *)
(* the landing cell (exactly the jumps the piece has there); if the list   *)
(* is not empty the Turn is extended in place: possible_targets is that    *)
(* list, final_move is None, step stays CHECK_MULTIPLE_JUMPS, the player   *)
(* and the Turn's legal moves are the same and no new Turn is created.     *)
C7_ChainExtension ==
    (ev.move # NoMove /\ ev.move.capturing # NoLoc)
        => /\ \A m \in Elements(ev.additional_jumps) :
                  m.capturing # NoLoc /\ m.current_loc = ev.move.new_loc
           /\ Elements(ev.additional_jumps)
                  = {m \in LegalMoves(status, ev.move.new_loc) :
                         m.capturing # NoLoc}
           /\ Len(ev.additional_jumps) > 0
                  => /\ ev.made.possible_targets = ev.additional_jumps
                     /\ ev.made.final_move = NoMove
                     /\ ev.selected.step = CHECK_MULTIPLE_JUMPS
                     /\ ev.made.step = CHECK_MULTIPLE_JUMPS
                     /\ ev.made.player = ev.before.player
                     /\ ev.made.valid_moves = ev.before.valid_moves
                     /\ ev.made.capture_required = ev.before.capture_required
                     /\ ~ev.advanced
                     /\ current_turn = ev.made

(* a capture was applied and the piece can jump again from where it landed *)
C7_Witness ==
    /\ ev.move # NoMove
    /\ ev.move.capturing # NoLoc
    /\ Len(ev.additional_jumps) > 0
    /\ current_turn.step = CHECK_MULTIPLE_JUMPS
    /\ current_turn.possible_targets = ev.additional_jumps

(* C8: a Turn reaches MOVE_COMPLETE iff a Move was committed and applied   *)
(* in it and either no capture was required for the turn or no capturing   *)
(* Move is available from the landing cell; the selection alone completes  *)
(* a Turn only by committing a Move of a turn that requires no capture,    *)
(* and a new Turn is never complete.                                       *)
C8_Completes(turn, move, st) ==
    /\ move # NoMove
    /\ ~turn.capture_required \/ JumpDirections(st, move.new_loc) = {}

C8_TurnCompletion ==
    /\ (ev.handler # "" /\ ev.before.step # MOVE_COMPLETE)
           => /\ ev.made.step = MOVE_COMPLETE
                     <=> C8_Completes(ev.before, ev.move, status)
              /\ ev.made.step = MOVE_COMPLETE
                     => ev.made.final_move = ev.move /\ ev.advanced
    /\ current_turn.step = MOVE_COMPLETE
           => /\ C8_Completes(current_turn, current_turn.final_move, status)
              /\ status[current_turn.final_move.current_loc] = NoPiece
              /\ contains_piece(status[current_turn.final_move.new_loc],
                                current_turn.player)
    /\ current_turn.step # MOVE_COMPLETE
           => \A loc \in ClickCells :
                  LET r == is_valid_turn(current_turn, loc)
                  IN r.turn.step = MOVE_COMPLETE
                         => /\ r.ret
                            /\ ~current_turn.capture_required
                            /\ r.turn.final_move # NoMove

(* the last jump of a chain was applied and the Turn completed *)
C8_Witness ==
    /\ ev.handler # ""
    /\ ev.before.step = CHECK_MULTIPLE_JUMPS
    /\ ev.before.capture_required
    /\ ev.move.capturing # NoLoc
    /\ ev.additional_jumps = <<>>
    /\ ev.made.step = MOVE_COMPLETE

(* C9: update_state(move) puts the occupant of the source cell on the      *)
(* destination cell and empties the source; for a capture it empties the   *)
(* captured cell and adds exactly 1 to the mover's score, the other score  *)
(* unchanged; otherwise both scores are unchanged; every other cell keeps  *)
(* its occupant.  It holds of update_state for every legal Move of the     *)
(* player to move, and of every Move a handler applied.                    *)
C9_Moved(before, after, move) ==
    /\ before[move.current_loc] # NoPiece
    /\ after[move.new_loc].color = before[move.current_loc].color
    /\ after[move.new_loc] \in {before[move.current_loc],
                                make_king(before[move.current_loc])}
    /\ after[move.current_loc] = NoPiece
    /\ move.capturing # NoLoc => after[move.capturing] = NoPiece
    /\ \A loc \in Cells \ {move.current_loc, move.new_loc, move.capturing} :
           after[loc] = before[loc]

C9_Scored(player, move, black_before, red_before, black_after, red_after) ==
    LET gain == IF move.capturing # NoLoc THEN 1 ELSE 0
    IN /\ black_after = black_before + (IF player = BLACK THEN gain ELSE 0)
       /\ red_after = red_before + (IF player = RED THEN gain ELSE 0)

C9_OfEveryMove ==
    LET moves == valid_moves_for_color(status, current_turn.player)
    IN \A i \in 1 .. Len(moves) :
           \A j \in 1 .. Len(moves[i][2]) :
               LET move == moves[i][2][j]
                   u == update_state(G, move)
               IN /\ C9_Moved(status, u.status, move)
                  /\ C9_Scored(current_turn.player, move, black_score,
                               red_score, u.black_score, u.red_score)
                  /\ u.winner = winner
                  /\ u.current_turn = current_turn

C9_Applied ==
    IF ev'.move # NoMove
    THEN /\ C9_Moved(status, status', ev'.move)
         /\ C9_Scored(current_turn.player, ev'.move, black_score, red_score,
                      black_score', red_score')
    ELSE UNCHANGED <<status, black_score, red_score>>

C9_UpdateState == []C9_OfEveryMove /\ [][C9_Applied]_vars

(* RED's handler applied a capture: the captured cell is empty, the piece  *)
(* stands on the destination and RED has the point                         *)
C9_Witness ==
    /\ ev.handler = "ai_move"
    /\ ev.move.capturing # NoLoc
    /\ status[ev.move.capturing] = NoPiece
    /\ status[ev.move.current_loc] = NoPiece
    /\ status[ev.move.new_loc].color = RED
    /\ red_score > 0

(* C10: a BLACK piece moved onto row 7, or a RED piece moved onto row 0,   *)
(* is a king afterwards: is_king is true and its directions are the four   *)
(* diagonals; make_king changes nothing on a king; no handler turns a king *)
(* into a regular piece or changes the color of a piece.                   *)
C10_Diagonals == {<<1, 1>>, <<1, -1>>, <<-1, 1>>, <<-1, -1>>}

C10_IsKing(piece) ==
    /\ piece.is_king
    /\ DirectionSet(piece) = C10_Diagonals
    /\ Len(piece.piece_directions) = 4

C10_Kings ==
    /\ \A loc \in Cells :
           status[loc] # NoPiece
               => /\ status[loc].is_king => C10_IsKing(status[loc])
                  /\ status[loc].is_king
                         => make_king(status[loc]) = status[loc]
                  /\ C10_IsKing(make_king(status[loc]))
                  /\ make_king(make_king(status[loc])) = make_king(status[loc])
                  /\ make_king(status[loc]).color = status[loc].color
    /\ ev.move # NoMove
           => /\ (ev.piece.color = BLACK /\ ev.move.new_loc[1] = 7)
                     => C10_IsKing(status[ev.move.new_loc])
              /\ (ev.piece.color = RED /\ ev.move.new_loc[1] = 0)
                     => C10_IsKing(status[ev.move.new_loc])
              /\ ev.piece.is_king => status[ev.move.new_loc] = ev.piece
              /\ status[ev.move.new_loc].color = ev.piece.color

C10_Keeps ==
    \A loc \in Cells :
        status'[loc] # NoPiece
            => \/ status'[loc] = status[loc]
               \/ /\ loc = ev'.move.new_loc
                  /\ status[loc] = NoPiece
                  /\ status'[loc].color = status[ev'.move.current_loc].color
                  /\ status[ev'.move.current_loc].is_king
                         => status'[loc] = status[ev'.move.current_loc]
                  /\ status'[ev'.move.current_loc] = NoPiece

C10_Promotion == []C10_Kings /\ [][C10_Keeps]_vars

(* a regular piece was moved onto its king row and is a king there *)
C10_Witness ==
    /\ ev.move # NoMove
    /\ ~ev.piece.is_king
    /\ ev.move.new_loc[1] = (IF ev.piece.color = BLACK THEN 7 ELSE 0)
    /\ status[ev.move.new_loc].is_king

(* C11: advance_turn recomputes the legal moves of both colors on the     *)
(* current board and then: if the side that just moved was BLACK and RED   *)
(* has legal moves the active Turn is a new RED Turn in NEW_TURN; else if  *)
(* BLACK has legal moves it is a new BLACK Turn in NEW_TURN; else no new   *)
(* Turn is created and the winner is set.                                  *)
C11_NewTurn(player, moves) ==
    /\ current_turn.player = player
    /\ current_turn.step = NEW_TURN
    /\ current_turn.valid_moves = moves
    /\ current_turn.possible_targets = <<>>
    /\ current_turn.final_move = NoMove

C11_AdvanceTurn ==
    ev.advanced
        => /\ black_possible_moves = valid_moves_for_color(status, BLACK)
           /\ red_possible_moves = valid_moves_for_color(status, RED)
           /\ IF ev.made.player = BLACK /\ Len(red_possible_moves) > 0
              THEN C11_NewTurn(RED, red_possible_moves)
              ELSE IF Len(black_possible_moves) > 0
                   THEN C11_NewTurn(BLACK, black_possible_moves)
                   ELSE /\ current_turn = ev.made
                        /\ current_turn.step = MOVE_COMPLETE
                        /\ winner # EMPTY

(* BLACK moved, RED cannot move, and the new Turn is BLACK's again *)
C11_Witness ==
    /\ ev.advanced
    /\ ev.made.player = BLACK
    /\ Len(red_possible_moves) = 0
    /\ C11_NewTurn(BLACK, black_possible_moves)

(* C12: each time the legal moves of both colors are recomputed, the       *)
(* winner is RED if BLACK's mapping is empty (also when RED's is empty     *)
(* too), else BLACK if RED's mapping is empty, else it is not modified.    *)
C12_Winner(black_moves, red_moves, before) ==
    IF Len(black_moves) = 0
    THEN RED
    ELSE IF Len(red_moves) = 0 THEN BLACK ELSE before

C12_Mappings == {<<>>, black_possible_moves, red_possible_moves}

C12_OfCheckGameOver ==
    /\ \A black_moves \in C12_Mappings, red_moves \in C12_Mappings,
          before \in {EMPTY, BLACK, RED} :
           LET g == [G EXCEPT !.black_possible_moves = black_moves,
                              !.red_possible_moves = red_moves,
                              !.winner = before]
           IN check_game_over(g)
                  = [g EXCEPT !.winner = C12_Winner(black_moves, red_moves, before)]
    /\ LET p == populate_valid_moves(G)
       IN p.winner = C12_Winner(valid_moves_for_color(status, BLACK),
                                valid_moves_for_color(status, RED), winner)

C12_Recomputed ==
    ev'.advanced
        => winner' = C12_Winner(valid_moves_for_color(status', BLACK),
                                valid_moves_for_color(status', RED), winner)

C12_WinDetection == []C12_OfCheckGameOver /\ [][C12_Recomputed]_vars

(* the moves were recomputed after BLACK's move, RED has none and BLACK    *)
(* has some: BLACK is the winner                                           *)
C12_Witness ==
    /\ ev.advanced
    /\ Len(red_possible_moves) = 0
    /\ Len(black_possible_moves) > 0
    /\ winner = BLACK

(* C13: at the standard start position BLACK's piece on (2,1) has exactly *)
(* the non-capturing moves to (3,0) and (3,2); the click on (2,1) is       *)
(* accepted and leaves step VALID_PIECE_SELECTED; the click on (3,0) is    *)
(* then accepted, moves the piece, completes BLACK's Turn, and the active  *)
(* Turn becomes a new RED Turn in NEW_TURN.                                *)
C13_Start == new_game

C13_Moved ==
    [C13_Start.status EXCEPT ![<<3, 0>>] = C13_Start.status[<<2, 1>>],
                             ![<<2, 1>>] = NoPiece]

C13_AtStart ==
    /\ status = C13_Start.status
    /\ current_turn = C13_Start.current_turn
    /\ black_score = 0
    /\ red_score = 0

C13_FromStart ==
    C13_AtStart
        => LET b == [g |-> G, timers |-> timers]
               moves == Lookup(current_turn.valid_moves, <<2, 1>>)
               first == is_valid_turn(current_turn, <<2, 1>>)
               b1 == board_click(b, <<2, 1>>)
               second == is_valid_turn(b1.g.current_turn, <<3, 0>>)
               b2 == board_click(b1, <<3, 0>>)
           IN /\ HasKey(current_turn.valid_moves, <<2, 1>>)
              /\ Len(moves) = 2
              /\ Elements(moves)
                     = {Move(<<2, 1>>, <<3, 0>>, NoLoc),
                        Move(<<2, 1>>, <<3, 2>>, NoLoc)}
              /\ first.ret
              /\ b1.g.current_turn = first.turn
              /\ b1.g.current_turn.step = VALID_PIECE_SELECTED
              /\ b1.g.current_turn.possible_targets = moves
              /\ b1.g.status = status
              /\ second.ret
              /\ second.turn.step = MOVE_COMPLETE
              /\ second.turn.final_move = Move(<<2, 1>>, <<3, 0>>, NoLoc)
              /\ b2.g.status = C13_Moved
              /\ b2.g.current_turn
                     = Turn(RED, valid_moves_for_color(C13_Moved, RED))
              /\ b2.g.current_turn.step = NEW_TURN
              /\ b2.g.winner = EMPTY
              /\ b2.timers = b.timers + 1

C13_Played ==
    (/\ status' = C13_Moved
     /\ status = C13_Start.status
     /\ current_turn.possible_targets
            = Lookup(C13_Start.current_turn.valid_moves, <<2, 1>>))
        => /\ ev'.handler = "board_click"
           /\ ev'.ret
           /\ ev'.before.step = VALID_PIECE_SELECTED
           /\ ev'.made.step = MOVE_COMPLETE
           /\ ev'.advanced
           /\ current_turn'.player = RED
           /\ current_turn'.step = NEW_TURN
           /\ current_turn'.valid_moves = valid_moves_for_color(C13_Moved, RED)

C13_FirstMove == []C13_FromStart /\ [][C13_Played]_vars

(* the two clicks were made from the start position *)
C13_Witness ==
    /\ status = C13_Moved
    /\ ev.handler = "board_click"
    /\ ev.move = Move(<<2, 1>>, <<3, 0>>, NoLoc)
    /\ ev.made.step = MOVE_COMPLETE
    /\ ev.advanced
    /\ current_turn.player = RED
    /\ current_turn.step = NEW_TURN
    /\ timers = 1

(* C14: in every reachable state, the start position included, no cell    *)
(* whose playable flag is false holds a piece.  The flag is the value of   *)
(* is_dark, true where row + col is even, and get_start_state puts the     *)
(* pieces on the cells where is_dark is false.                             *)
C14_UnplayableCellsEmpty ==
    \A loc \in Cells : ~playable(loc) => status[loc] = NoPiece

(* C15: after construction the board holds 12 BLACK pieces in rows 0-2    *)
(* and 12 RED pieces in rows 5-7, rows 3-4 are empty, no piece is a king,  *)
(* both scores are 0, the winner is None, and the active Turn is BLACK's,  *)
(* in NEW_TURN, with BLACK's legal moves on that board and                 *)
(* capture_required false.                                                 *)
C15_CellsOf(g, color) == {loc \in Cells : contains_piece(g.status[loc], color)}

C15_Constructed(g) ==
    /\ Cardinality(C15_CellsOf(g, BLACK)) = 12
    /\ \A loc \in C15_CellsOf(g, BLACK) : loc[1] \in 0 .. 2
    /\ Cardinality(C15_CellsOf(g, RED)) = 12
    /\ \A loc \in C15_CellsOf(g, RED) : loc[1] \in 5 .. 7
    /\ \A loc \in Cells : loc[1] \in 3 .. 4 => g.status[loc] = NoPiece
    /\ \A loc \in Cells :
           g.status[loc] = NoPiece \/ g.status[loc].color \in {BLACK, RED}
    /\ \A loc \in Cells : ~g.status[loc].is_king
    /\ g.black_score = 0
    /\ g.red_score = 0
    /\ g.winner = EMPTY
    /\ g.current_turn.player = BLACK
    /\ g.current_turn.step = NEW_TURN
    /\ g.current_turn.valid_moves = valid_moves_for_color(g.status, BLACK)
    /\ Len(g.current_turn.valid_moves) > 0
    /\ g.current_turn.possible_targets = <<>>
    /\ g.current_turn.final_move = NoMove
    /\ ~g.current_turn.capture_required
    /\ g.black_possible_moves = g.current_turn.valid_moves
    /\ g.red_possible_moves = valid_moves_for_color(g.status, RED)

C15_AfterConstruction ==
    /\ C15_Constructed(new_game)
    /\ (ev.handler = "" /\ black_score + red_score = 0) => C15_Constructed(G)

(* the state the constructor leaves, before any handler has run *)
C15_Witness ==
    /\ ev.handler = ""
    /\ turns = 0
    /\ G = new_game
    /\ Cardinality(C15_CellsOf(G, BLACK)) = 12
    /\ Cardinality(C15_CellsOf(G, RED)) = 12
    /\ ~current_turn.capture_required

(* C16: choose_ai_cell, in NEW_TURN, returns the first location in the    *)
(* order of the mapping whose list starts with a capture if                *)
(* capture_required, and otherwise the key random.randint picks, any key   *)
(* being possible, and selects that piece; in VALID_PIECE_SELECTED or      *)
(* CHECK_MULTIPLE_JUMPS it commits the first Move of possible_targets and  *)
(* returns its destination; in MOVE_COMPLETE it returns None and changes   *)
(* nothing.  So did every call ai_move made.                               *)
C16_Choice(turn, c, key_loc) ==
    LET vm == turn.valid_moves
    IN CASE turn.step = NEW_TURN ->
                /\ \E i \in 1 .. Len(vm) :
                       /\ vm[i][1] = c.loc
                       /\ IF turn.capture_required
                          THEN /\ vm[i][2][1].capturing # NoLoc
                               /\ \A j \in 1 .. i - 1 :
                                      vm[j][2][1].capturing = NoLoc
                          ELSE i = key_loc + 1
                       /\ c.turn = [turn EXCEPT !.step = VALID_PIECE_SELECTED,
                                                !.possible_targets = vm[i][2]]
         [] turn.step \in {VALID_PIECE_SELECTED, CHECK_MULTIPLE_JUMPS} ->
                /\ c.loc = turn.possible_targets[1].new_loc
                /\ c.turn = [turn EXCEPT
                                 !.final_move = turn.possible_targets[1],
                                 !.step = IF turn.capture_required
                                          THEN CHECK_MULTIPLE_JUMPS
                                          ELSE MOVE_COMPLETE]
         [] OTHER -> c.loc = NoLoc /\ c.turn = turn

C16_KeyLocs(turn) ==
    IF turn.step = NEW_TURN THEN 0 .. (Len(turn.valid_moves) - 1) ELSE {0}

C16_AutomatedSelection ==
    /\ \A key_loc \in C16_KeyLocs(current_turn) :
           C16_Choice(current_turn, choose_ai_cell(current_turn, key_loc), key_loc)
    /\ (current_turn.step = NEW_TURN /\ ~current_turn.capture_required)
           => {choose_ai_cell(current_turn, key_loc).loc :
                   key_loc \in C16_KeyLocs(current_turn)}
                  = Elements(Keys(current_turn.valid_moves))
    /\ ev.handler = "ai_move"
           => \E key_loc \in C16_KeyLocs(ev.before) :
                  C16_Choice(ev.before,
                             [loc |-> ev.location, turn |-> ev.selected], key_loc)

(* ai_move selected the first piece that can capture, which is not the     *)
(* first piece of the mapping                                              *)
C16_Witness ==
    /\ ev.handler = "ai_move"
    /\ ev.before.step = NEW_TURN
    /\ ev.before.capture_required
    /\ ev.location # ev.before.valid_moves[1][1]
    /\ ev.selected.possible_targets[1].capturing # NoLoc
    /\ current_turn = ev.selected

(* The continuation checks the current state allows: for each capturing   *)
(* Move among the targets of the selected piece, the Game after the Move   *)
(* was committed and applied (queried), the list get_additional_jump       *)
(* returns for the landing cell and the Game it leaves (left).             *)
C17_Checks ==
    IF current_turn.step \in {VALID_PIECE_SELECTED, CHECK_MULTIPLE_JUMPS}
    THEN {LET move == current_turn.possible_targets[i]
              selected == [G EXCEPT !.current_turn =
                                        finish_piece_move(current_turn, move)]
              queried == update_state(selected, move)
          IN [move |-> move,
              queried |-> queried,
              returned |-> possible_capture(queried, move.new_loc,
                                            current_turn.player),
              left |-> get_additional_jump(queried, move.new_loc,
                                           current_turn.player)] :
          i \in {j \in 1 .. Len(current_turn.possible_targets) :
                     is_capture(current_turn.possible_targets[j])}}
    ELSE {}

(* C17 as stated: querying the legal moves has no side effects, for the    *)
(* full-turn legality and for the continuation check from a landing cell:  *)
(* board, scores, winner and the active Turn (step, possible_targets,      *)
(* final_move) are the same after the query as before, and repeating the   *)
(* query on the unchanged board returns the same result.                   *)
C17_QueryLeavesAll ==
    \A c \in C17_Checks :
        /\ c.left = c.queried
        /\ possible_capture(c.left, c.move.new_loc, current_turn.player)
               = c.returned

(* C17 amended: the continuation check leaves the board, the scores, the   *)
(* winner, the stored mappings and the Turn's player, legal moves,         *)
(* possible_targets and final_move as they were; it leaves step as it was  *)
(* when it returns a capture and sets step to MOVE_COMPLETE when it        *)
(* returns the empty list; repeated on the Game it leaves it returns the   *)
(* same list and changes nothing more; valid_moves_for_color gives the     *)
(* same mappings before and after it.                                      *)
C17_QueryEffects ==
    \A c \in C17_Checks :
        /\ c.queried.current_turn.step = CHECK_MULTIPLE_JUMPS
        /\ c.left = [c.queried EXCEPT !.current_turn.step =
                                          IF c.returned = <<>>
                                          THEN MOVE_COMPLETE
                                          ELSE CHECK_MULTIPLE_JUMPS]
        /\ possible_capture(c.left, c.move.new_loc, current_turn.player)
               = c.returned
        /\ get_additional_jump(c.left, c.move.new_loc, current_turn.player)
               = c.left
        /\ \A color \in {BLACK, RED} :
               valid_moves_for_color(c.left.status, color)
                   = valid_moves_for_color(c.queried.status, color)

(* a selected piece has two jumps: after one the chain goes on, after the  *)
(* other the check finds nothing and completes the Turn                    *)
C17_Witness ==
    /\ \E c \in C17_Checks :
           /\ c.returned = <<>>
           /\ c.queried.current_turn.step = CHECK_MULTIPLE_JUMPS
           /\ c.left.current_turn.step = MOVE_COMPLETE
    /\ \E c \in C17_Checks :
           /\ c.returned # <<>>
           /\ c.left = c.queried

(* C18: the legal moves are never stale at the start of a turn: whenever  *)
(* the active Turn is in NEW_TURN, its valid_moves is what                 *)
(* valid_moves_for_color returns for the Turn's player on the current      *)
(* board.                                                                  *)
C18_FreshMoves ==
    current_turn.step = NEW_TURN
        => /\ current_turn.valid_moves
                  = valid_moves_for_color(status, current_turn.player)
           /\ current_turn.valid_moves
                  = (IF current_turn.player = BLACK
                     THEN black_possible_moves
                     ELSE red_possible_moves)

(* a Turn created after the other side captured: its moves are those of    *)
(* the new board and not those the mover's Turn held                       *)
C18_Witness ==
    /\ ev.advanced
    /\ ev.move.capturing # NoLoc
    /\ current_turn.step = NEW_TURN
    /\ current_turn.player # ev.made.player
    /\ current_turn.valid_moves
           = valid_moves_for_color(status, current_turn.player)
    /\ current_turn.valid_moves # ev.made.valid_moves

(* C19: every Move applied to the board, by a click or by ai_move, at the  *)
(* first jump or later in a chain, is legal on the board at the moment it  *)
(* is applied: its source holds a piece of the active Turn's player, its   *)
(* destination is on the board and empty, and if it is a capture the       *)
(* captured cell lies between them and holds an enemy piece; update_state  *)
(* is never called with an empty source or without a committed Move.       *)
C19_Legal(st, player, move) ==
    /\ move # NoMove
    /\ OnBoard(move.current_loc)
    /\ contains_piece(st[move.current_loc], player)
    /\ OnBoard(move.new_loc)
    /\ st[move.new_loc] = NoPiece
    /\ \E d \in DirectionSet(st[move.current_loc]) :
           IF move.capturing = NoLoc
           THEN move.new_loc = Steps(move.current_loc, d, 1)
           ELSE /\ move.capturing = Steps(move.current_loc, d, 1)
                /\ move.new_loc = Steps(move.current_loc, d, 2)
                /\ st[move.capturing] # NoPiece
                /\ st[move.capturing].color # player
    /\ move \in LegalMoves(st, move.current_loc)

(* the Moves the selected piece may still be told to make are legal now *)
C19_Targets ==
    current_turn.step \in {VALID_PIECE_SELECTED, CHECK_MULTIPLE_JUMPS}
        => /\ current_turn.possible_targets # <<>>
           /\ \A move \in Elements(current_turn.possible_targets) :
                  C19_Legal(status, current_turn.player, move)

(* make_move called update_state iff the Turn it was given was not in      *)
(* VALID_PIECE_SELECTED; the Move it passed was legal on the board before  *)
C19_Applied ==
    /\ (ev'.handler = "ai_move" \/ ev'.ret)
           => (ev'.move # NoMove <=> ev'.selected.step # VALID_PIECE_SELECTED)
    /\ ev'.move # NoMove
           => /\ C19_Legal(status, current_turn.player, ev'.move)
              /\ ev'.move = ev'.selected.final_move
              /\ ev'.piece = status[ev'.move.current_loc]
              /\ ev'.selected.player = current_turn.player

C19_AppliedMovesLegal == []C19_Targets /\ [][C19_Applied]_vars

(* ai_move applied a later jump of a chain *)
C19_Witness ==
    /\ ev.handler = "ai_move"
    /\ ev.before.step = CHECK_MULTIPLE_JUMPS
    /\ ev.move.capturing # NoLoc
    /\ ev.piece.color = RED
    /\ status[ev.move.new_loc].color = RED
    /\ status[ev.move.capturing] = NoPiece

(* C20: forced capture end to end: if at the start of a Turn any piece of *)
(* its player has a capturing Move, every Move applied during the Turn is  *)
(* a capture; a non-capturing Move is applied only in Turns whose player   *)
(* had no capture at the Turn's start.  A Turn's valid_moves is the        *)
(* mapping of the board it starts on.                                      *)
C20_HadCapture(turn) ==
    \E i \in 1 .. Len(turn.valid_moves) :
        \E k \in 1 .. Len(turn.valid_moves[i][2]) :
            turn.valid_moves[i][2][k].capturing # NoLoc

C20_ForcedCapture ==
    /\ current_turn.step = NEW_TURN
           => (C20_HadCapture(current_turn)
                   <=> \E loc \in Cells :
                           /\ contains_piece(status[loc], current_turn.player)
                           /\ JumpDirections(status, loc) # {})
    /\ ev.move # NoMove
           => /\ ev.made.valid_moves = ev.before.valid_moves
              /\ C20_HadCapture(ev.before) <=> ev.move.capturing # NoLoc

(* a click made a piece jump although the piece could also have stepped *)
C20_Witness ==
    /\ ev.handler = "board_click"
    /\ ev.before.step = VALID_PIECE_SELECTED
    /\ C20_HadCapture(ev.before)
    /\ ev.move.capturing # NoLoc
    /\ \E move \in Elements(ev.before.possible_targets) : move.capturing = NoLoc

(* C21: chain capture: within one Turn every jump after the first starts  *)
(* from the landing cell of the jump before it, the Turn's player does not *)
(* change between jumps, and while the piece that just captured has a      *)
(* capturing Move from its landing cell the Turn is not completed and the  *)
(* other player gets no Turn.                                              *)
(* In a chain the targets are the jumps of one piece of the player. *)
C21_InChain ==
    current_turn.step = CHECK_MULTIPLE_JUMPS
        => /\ current_turn.possible_targets # <<>>
           /\ current_turn.final_move = NoMove
           /\ \A move \in Elements(current_turn.possible_targets) :
                  /\ move.capturing # NoLoc
                  /\ move.current_loc
                         = current_turn.possible_targets[1].current_loc
                  /\ contains_piece(status[move.current_loc],
                                    current_turn.player)

C21_Jump ==
    /\ (ev'.move.capturing # NoLoc
        /\ JumpDirections(status', ev'.move.new_loc) # {})
           => /\ current_turn'.step = CHECK_MULTIPLE_JUMPS
              /\ current_turn'.player = current_turn.player
              /\ current_turn'.valid_moves = current_turn.valid_moves
              /\ ~ev'.advanced
              /\ \A move \in Elements(current_turn'.possible_targets) :
                     move.current_loc = ev'.move.new_loc
    /\ current_turn.step = CHECK_MULTIPLE_JUMPS
           => IF ev'.move = NoMove
              THEN UNCHANGED <<current_turn, status>>
              ELSE /\ ev'.move \in Elements(current_turn.possible_targets)
                   /\ ev'.move.capturing # NoLoc
                   /\ ev'.piece.color = current_turn.player
                   /\ ev'.made.player = current_turn.player
                   /\ ev.move # NoMove
                          => /\ ev'.move.current_loc = ev.move.new_loc
                             /\ ev.move.capturing # NoLoc
                             /\ ev.made.player = current_turn.player

C21_ChainCapture == []C21_InChain /\ [][C21_Jump]_vars

(* BLACK's second jump was made from the cell the first jump landed on,    *)
(* it ended the chain and RED got the turn                                 *)
C21_Witness ==
    /\ ev.handler = "board_click"
    /\ ev.before.step = CHECK_MULTIPLE_JUMPS
    /\ ev.before.player = BLACK
    /\ ev.move.capturing # NoLoc
    /\ ev.move.current_loc = ev.before.possible_targets[1].current_loc
    /\ ev.additional_jumps = <<>>
    /\ ev.advanced
    /\ current_turn.player = RED

(* C22: the automated agent obeys the interactive protocol: in every      *)
(* reachable Turn state the cell choose_ai_cell chooses is one             *)
(* is_valid_turn accepts in that state, and choose_ai_cell leaves the Turn *)
(* as that accepted call of is_valid_turn leaves it.  On a complete Turn   *)
(* choose_ai_cell chooses no cell and, like is_valid_turn, changes         *)
(* nothing.                                                                *)
C22_Obeys(turn, c) ==
    LET r == is_valid_turn(turn, c.loc)
    IN IF turn.step = MOVE_COMPLETE
       THEN c.loc = NoLoc /\ c.turn = turn /\ ~r.ret /\ r.turn = turn
       ELSE /\ c.loc \in Cells
            /\ r.ret
            /\ ~r.printed
            /\ r.turn = c.turn

C22_AiObeysProtocol ==
    /\ \A key_loc \in C16_KeyLocs(current_turn) :
           C22_Obeys(current_turn, choose_ai_cell(current_turn, key_loc))
    /\ ev.handler = "ai_move"
           => C22_Obeys(ev.before, [loc |-> ev.location, turn |-> ev.selected])

(* ai_move committed the jump of a piece that could also have stepped *)
C22_Witness ==
    /\ ev.handler = "ai_move"
    /\ ev.before.step = VALID_PIECE_SELECTED
    /\ ev.before.capture_required
    /\ ev.move.capturing # NoLoc
    /\ ev.before.possible_targets[Len(ev.before.possible_targets)].capturing
           = NoLoc
    /\ is_valid_turn(ev.before, ev.location).turn = ev.selected

(* C23: clicks and pending ai_move timers never interleave on one Turn:   *)
(* while the active Turn's player is RED a click at any location changes   *)
(* neither the Turn nor the board, the scores or the winner; and ai_move   *)
(* only runs while the active Turn's player is RED and the Turn is not     *)
(* complete (a timer is pending only then, and at most one).               *)
C23_TimerPending ==
    /\ timers \in {0, 1}
    /\ timers > 0
           => /\ current_turn.player = RED
              /\ current_turn.step # MOVE_COMPLETE
              /\ winner = EMPTY
    /\ current_turn.player = RED
           => \A location \in ClickCells :
                  board_click([g |-> G, timers |-> timers], location)
                      = [g |-> G, timers |-> timers]

C23_Handlers ==
    /\ (ev'.handler = "board_click" /\ current_turn.player = RED)
           => /\ ~ev'.called
              /\ ev'.move = NoMove
              /\ UNCHANGED <<status, black_score, red_score, winner,
                             black_possible_moves, red_possible_moves,
                             current_turn, timers>>
    /\ ev'.handler = "ai_move"
           => /\ current_turn.player = RED
              /\ current_turn.step # MOVE_COMPLETE
              /\ timers = 1
              /\ ev'.before = current_turn
    /\ (ev'.handler = "board_click" /\ ev'.called)
           => current_turn.player = BLACK /\ timers = 0

C23_NoInterleaving == []C23_TimerPending /\ [][C23_Handlers]_vars

(* a click arrived between two jumps of RED's chain and was ignored *)
C23_Witness ==
    /\ ev.handler = "board_click"
    /\ ~ev.called
    /\ current_turn.player = RED
    /\ current_turn.step = CHECK_MULTIPLE_JUMPS
    /\ timers = 1

(* C24: a piece promoted by a capturing Move keeps its turn: the          *)
(* continuation check after the capture is made with the king's            *)
(* directions, so if a capture, a backward one included, is available from *)
(* the promotion square the Turn is extended and not completed.            *)
(* the jumps from loc over an enemy of color in any of the four diagonals *)
C24_KingJumps(st, loc, color) ==
    {Move(loc, Steps(loc, d, 2), Steps(loc, d, 1)) :
         d \in {dd \in {<<1, 1>>, <<1, -1>>, <<-1, 1>>, <<-1, -1>>} :
                    /\ OnBoard(Steps(loc, dd, 2))
                    /\ st[Steps(loc, dd, 1)] # NoPiece
                    /\ st[Steps(loc, dd, 1)].color # color
                    /\ st[Steps(loc, dd, 2)] = NoPiece}}

C24_Promoted ==
    /\ ev.move # NoMove
    /\ ev.move.capturing # NoLoc
    /\ ~ev.piece.is_king
    /\ ev.move.new_loc[1]
           = (IF ev.piece.color = BLACK THEN BLACK_KING_ROW ELSE RED_KING_ROW)

C24_PromotedPieceKeepsTurn ==
    C24_Promoted
        => /\ status[ev.move.new_loc].is_king
           /\ Elements(ev.additional_jumps)
                  = C24_KingJumps(status, ev.move.new_loc, ev.piece.color)
           /\ IF C24_KingJumps(status, ev.move.new_loc, ev.piece.color) # {}
              THEN /\ ev.made.step = CHECK_MULTIPLE_JUMPS
                   /\ ev.made.possible_targets = ev.additional_jumps
                   /\ ev.made.player = ev.piece.color
                   /\ ~ev.advanced
                   /\ current_turn = ev.made
              ELSE ev.made.step = MOVE_COMPLETE /\ ev.advanced

(* a regular piece jumped onto its king row and, now a king, has a jump    *)
(* back from there: the Turn goes on                                       *)
C24_Witness ==
    /\ C24_Promoted
    /\ ev.additional_jumps # <<>>
    /\ status[ev.move.new_loc].is_king
    /\ current_turn.step = CHECK_MULTIPLE_JUMPS
    /\ current_turn.possible_targets = ev.additional_jumps
    /\ current_turn.player = ev.piece.color

(* C25: every Turn terminates: as long as selections that are accepted    *)
(* keep being made, a Turn that is not complete is completed (turns counts *)
(* the completed Turns); and the jumps of one Turn are no more than the    *)
(* enemy pieces on the board at its start.  The second part is stated with *)
(* a rank, twice the enemy pieces on the board plus the steps left before  *)
(* a Move is applied: every accepted selection either completes the Turn   *)
(* or leaves the same player's Turn with a smaller rank, never below 0,    *)
(* and every jump takes one enemy piece, which must be there, off the      *)
(* board, none being added while the Turn lasts.                           *)
C25_Enemies(st, player) ==
    Cardinality({loc \in Cells : st[loc] # NoPiece /\ st[loc].color # player})

C25_Rank(turn, st) ==
    2 * C25_Enemies(st, turn.player)
        + (CASE turn.step = NEW_TURN -> 2
             [] turn.step = VALID_PIECE_SELECTED -> 1
             [] OTHER -> 0)

C25_CanGoOn ==
    current_turn.step # MOVE_COMPLETE
        => /\ \E location \in Cells : is_valid_turn(current_turn, location).ret
           /\ \A key_loc \in C16_KeyLocs(current_turn) :
                  choose_ai_cell(current_turn, key_loc).loc \in Cells

C25_AcceptedStep ==
    ((ev'.handler = "ai_move" \/ ev'.ret) /\ current_turn.step # MOVE_COMPLETE)
        => \/ /\ turns' = turns + 1
              /\ ev'.made.step = MOVE_COMPLETE
              /\ ev'.made.player = current_turn.player
              /\ ev'.advanced
           \/ /\ turns' = turns
              /\ ~ev'.advanced
              /\ current_turn'.step # MOVE_COMPLETE
              /\ current_turn'.player = current_turn.player
              /\ C25_Rank(current_turn', status') < C25_Rank(current_turn, status)
              /\ C25_Rank(current_turn', status') >= 0

C25_Jumps ==
    IF ev'.move # NoMove /\ ev'.move.capturing # NoLoc
    THEN /\ C25_Enemies(status, current_turn.player) >= 1
         /\ C25_Enemies(status', current_turn.player)
                = C25_Enemies(status, current_turn.player) - 1
    ELSE C25_Enemies(status', current_turn.player)
             = C25_Enemies(status, current_turn.player)

(* a selection can be made: it is BLACK's Turn, or RED's and a timer runs *)
C25_Served(n) ==
    /\ turns = n
    /\ current_turn.step # MOVE_COMPLETE
    /\ current_turn.player = RED => timers > 0

C25_Completed(n) == turns = n + 1 /\ ev.made.step = MOVE_COMPLETE /\ ev.advanced

C25_Progress == \A n \in 0 .. MaxTurns - 1 : C25_Served(n) ~> C25_Completed(n)

C25_TurnsTerminate ==
    /\ C25_Progress
    /\ []C25_CanGoOn
    /\ [][C25_AcceptedStep /\ C25_Jumps]_vars

(* a Turn of two jumps has been completed *)
C25_Witness ==
    /\ turns > 0
    /\ ev.before.step = CHECK_MULTIPLE_JUMPS
    /\ ev.move.capturing # NoLoc
    /\ ev.made.step = MOVE_COMPLETE
    /\ ev.advanced
    /\ C25_Enemies(status, ev.made.player) >= 1

----------------------------------------------------------------------------
(* C26: no Turn is stuck.  The active Turn, and every Turn advance_turn    *)
(* creates, has a mapping that is not empty and holds no empty list; in    *)
(* every step but MOVE_COMPLETE there is a cell is_valid_turn accepts, and *)
(* choose_ai_cell returns such a cell; with a piece selected or in a chain *)
(* possible_targets is not empty and, when a capture is required, starts   *)
(* with a capture.                                                         *)
C26_HasMoves(turn) ==
    /\ Len(turn.valid_moves) > 0
    /\ \A i \in 1 .. Len(turn.valid_moves) : Len(turn.valid_moves[i][2]) > 0

C26_Accepted(turn) ==
    /\ \E location \in ClickCells : is_valid_turn(turn, location).ret
    /\ \A key_loc \in C16_KeyLocs(turn) :
           is_valid_turn(turn, choose_ai_cell(turn, key_loc).loc).ret

C26_Targets(turn) ==
    /\ Len(turn.possible_targets) > 0
    /\ turn.capture_required => is_capture(turn.possible_targets[1])

C26_TurnNotStuck(turn) ==
    /\ C26_HasMoves(turn)
    /\ turn.step # MOVE_COMPLETE => C26_Accepted(turn)
    /\ turn.step \in {VALID_PIECE_SELECTED, CHECK_MULTIPLE_JUMPS}
           => C26_Targets(turn)

C26_Created ==
    (ev'.advanced /\ current_turn' # ev'.made)
        => /\ current_turn'.step = NEW_TURN
           /\ current_turn'.player \in {BLACK, RED}
           /\ C26_HasMoves(current_turn')
           /\ C26_Accepted(current_turn')

C26_NoTurnStuck ==
    /\ [](C26_TurnNotStuck(current_turn) /\ C26_TurnNotStuck(ev.selected))
    /\ [][C26_Created]_vars

(* a Turn advance_turn created must capture and has its piece selected *)
C26_Witness ==
    /\ turns > 0
    /\ ev.handler # ""
    /\ ev.before.step = NEW_TURN
    /\ current_turn.step = VALID_PIECE_SELECTED
    /\ current_turn.capture_required
    /\ is_capture(current_turn.possible_targets[1])

----------------------------------------------------------------------------
(* C27: pieces and scores are conserved.  In every reachable state         *)
(* black_score is the number of RED pieces of the start position less the  *)
(* RED pieces on the board, and red_score the same for BLACK (12 each at   *)
(* the start); no handler lowers a score, and no handler adds a piece: the *)
(* pieces of each color after it are no more than before, a cell that has *)
(* a piece after it and had none before is the target of the Move applied. *)
C27_Count(st, color) ==
    Cardinality({loc \in Cells : contains_piece(st[loc], color)})

C27_Conserved ==
    /\ C27_Count(new_game.status, RED) = 12
    /\ C27_Count(new_game.status, BLACK) = 12
    /\ black_score = C27_Count(new_game.status, RED) - C27_Count(status, RED)
    /\ red_score = C27_Count(new_game.status, BLACK) - C27_Count(status, BLACK)
    /\ \A loc \in Cells : status[loc] # NoPiece => status[loc].color \in {BLACK, RED}

C27_NothingCreated ==
    /\ black_score' >= black_score
    /\ red_score' >= red_score
    /\ \A color \in {BLACK, RED} :
           C27_Count(status', color) <= C27_Count(status, color)
    /\ \A loc \in Cells :
           (status[loc] = NoPiece /\ status'[loc] # NoPiece)
               => /\ ev'.move # NoMove
                  /\ loc = ev'.move.new_loc
                  /\ status[ev'.move.current_loc] # NoPiece
                  /\ status'[ev'.move.current_loc] = NoPiece
    /\ (ev'.move # NoMove /\ is_capture(ev'.move))
           => black_score' + red_score' = black_score + red_score + 1

C27_Conservation == []C27_Conserved /\ [][C27_NothingCreated]_vars

(* both sides have captured, the last handler applying a capture *)
C27_Witness ==
    /\ ev.move # NoMove
    /\ is_capture(ev.move)
    /\ black_score > 0
    /\ red_score > 0
    /\ turns > 0

----------------------------------------------------------------------------
(* C28: in every reachable state every piece stands on a cell with         *)
(* row + col odd, the cells get_start_state fills; every Move the move     *)
(* generator gives for either color, and every Move a handler applies,     *)
(* starts and ends on such a cell (a step changes row and col by one each, *)
(* a jump by two each), and a jump takes a piece from such a cell.         *)
C28_Odd(loc) == (loc[1] + loc[2]) % 2 = 1

C28_SameParity(move) ==
    /\ (move.current_loc[1] + move.current_loc[2]) % 2
           = (move.new_loc[1] + move.new_loc[2]) % 2
    /\ C28_Odd(move.current_loc)
    /\ is_capture(move) => C28_Odd(move.capturing)

C28_Generated(moves) ==
    \A i \in 1 .. Len(moves) :
        \A j \in 1 .. Len(moves[i][2]) : C28_SameParity(moves[i][2][j])

C28_PiecesOnOdd ==
    /\ \A loc \in Cells : status[loc] # NoPiece => C28_Odd(loc)
    /\ \A loc \in Cells : new_game.status[loc] # NoPiece <=>
           (C28_Odd(loc) /\ (loc[1] <= BLACK_END_ROW \/ loc[1] >= RED_START_ROW))
    /\ \A color \in {BLACK, RED} :
           C28_Generated(valid_moves_for_color(status, color))

C28_Applied == ev'.move # NoMove => C28_SameParity(ev'.move)

C28_Parity == []C28_PiecesOnOdd /\ [][C28_Applied]_vars

(* two steps and a jump have been played from the start position *)
C28_Witness ==
    /\ turns = MaxTurns
    /\ Cardinality({loc \in Cells : status[loc] # NoPiece})
           = Cardinality({loc \in Cells : new_game.status[loc] # NoPiece}) - 1
    /\ ev.move # NoMove
    /\ is_capture(ev.move)

----------------------------------------------------------------------------
(* C29: the king invariant.  In every reachable state every BLACK piece on *)
(* row 7 and every RED piece on row 0 is a king; a piece has the four      *)
(* diagonal directions iff its is_king flag is true; a piece that is not a *)
(* king has exactly the two forward directions of its color (BLACK towards *)
(* row 7, RED towards row 0).                                              *)
C29_Forward(color) ==
    IF color = BLACK THEN {<<1, -1>>, <<1, 1>>} ELSE {<<-1, -1>>, <<-1, 1>>}

C29_PieceOk(piece, loc) ==
    /\ (piece.color = BLACK /\ loc[1] = 7) => piece.is_king
    /\ (piece.color = RED /\ loc[1] = 0) => piece.is_king
    /\ piece.is_king <=>
           DirectionSet(piece) = {<<1, -1>>, <<1, 1>>, <<-1, -1>>, <<-1, 1>>}
    /\ piece.is_king => Len(piece.piece_directions) = 4
    /\ ~piece.is_king
           => /\ DirectionSet(piece) = C29_Forward(piece.color)
              /\ Len(piece.piece_directions) = 2

C29_KingInvariant ==
    \A loc \in Cells : status[loc] # NoPiece => C29_PieceOk(status[loc], loc)

(* a piece has just been crowned and a regular piece is on the board *)
C29_Witness ==
    /\ ev.move # NoMove
    /\ ~ev.piece.is_king
    /\ status[ev.move.new_loc].is_king
    /\ ev.move.new_loc[1] \in {0, 7}
    /\ \E loc \in Cells :
           /\ status[loc] # NoPiece
           /\ ~status[loc].is_king

----------------------------------------------------------------------------
(* C30: once the winner has been set the game is over: in every handler    *)
(* step from a state with a winner, advance_turn creates no Turn, no       *)
(* selection is accepted and no Move is applied, so the active Turn, the   *)
(* board and the scores stay as they are.  board_click asks only whether   *)
(* the Turn's player is BLACK, and advance_turn gives BLACK a new Turn     *)
(* when RED cannot move, so after BLACK has won BLACK goes on playing.     *)
C30_Over ==
    winner # EMPTY
        => /\ current_turn' = current_turn
           /\ ~ev'.ret
           /\ ~ev'.advanced
           /\ ev'.move = NoMove
           /\ status' = status
           /\ black_score' = black_score
           /\ red_score' = red_score

C30_GameOverIsFinal == [][C30_Over]_vars

----------------------------------------------------------------------------
(* C31: the winner is stable: once winner is a color, no handler step      *)
(* changes it to the other color or back to none.  check_game_over never   *)
(* resets the winner, but it is run again after every Turn, and BLACK goes *)
(* on playing after it has won: when BLACK, alone on the board, has moved  *)
(* its pieces to where none of them can move, BLACK's mapping is empty and *)
(* the winner becomes RED.                                                 *)
C31_Kept == winner # EMPTY => winner' = winner

C31_WinnerStable == [][C31_Kept]_vars

====
